---------------------------- MODULE Spec2Model ----------------------------
(***************************************************************************)
(* A model of the eventline scheduling and webhook ingestion pipeline:     *)
(*   - JobScheduler.ProcessJob      (pkg/service/job_scheduler.go)         *)
(*   - Connector.ProcessWebhookRequest, CreateEvents and                   *)
(*     LoadSubscriptionsByParams    (pkg/connectors/github/webhooks.go)    *)
(*   - Runner.Init, ExecuteStep and Terminate                              *)
(*                                  (pkg/runners/ssh/runner.go)            *)
(* The database is the only shared state.  A transaction (pg.WithTx) is a  *)
(* set of staged writes applied atomically on commit and dropped on         *)
(* rollback; statements read the committed rows (READ COMMITTED).          *)
(***************************************************************************)
EXTENDS Integers, Sequences, FiniteSets, TLC

(***************************************************************************)
(* Bounds of the model.                                                    *)
(***************************************************************************)
NumWorkers == 2

NumExecutions == 3

MaxDeliveries == 1

MaxTime == 1

MaxSteps == 1

Workers == 1..NumWorkers

JobExecutionIds == 1..NumExecutions

Times == 0..MaxTime

NoWorker == 0

NoJobExecution == 0

NoTime == -1

(***************************************************************************)
(* Jobs.  A job is disabled or not, and allows concurrent executions or    *)
(* not (at most one execution in flight).                                  *)
(***************************************************************************)
JobIds == {"serial", "concurrent", "disabled"}

JobDisabled(j) == j = "disabled"

JobConcurrent(j) == j = "concurrent"

\* The job of each execution: every execution of one job that runs its
\* executions one at a time, every execution of one job that runs them
\* concurrently, or executions of the three jobs in turn.
JobLayouts ==
    {[e \in 1..NumExecutions |-> "serial"],
     [e \in 1..NumExecutions |-> "concurrent"],
     [e \in 1..NumExecutions |->
        CASE e % 3 = 1 -> "serial" [] e % 3 = 2 -> "concurrent" [] OTHER -> "disabled"]}

\* The executions are not scheduled in the order of their ids.
ScheduledAt(e) == (NumExecutions - e) % (MaxTime + 1)

JobExecutionStatuses == {"created", "started", "successful", "failed", "aborted"}

TerminalStatuses == {"successful", "failed", "aborted"}

\* How the run of an execution ends: decided by its steps, not by the scheduler.
Outcome(e) == CASE e % 3 = 1 -> "successful" [] e % 3 = 2 -> "failed" [] OTHER -> "aborted"

VARIABLES
    now,            \* the clock of the database server
    jeJob,          \* job_executions.job_id, per execution
    jeStatus,       \* job_executions.status (committed)
    jeStartedAt,    \* job_executions.started_at (committed)
    lockHolder,     \* the worker holding the job scheduling advisory lock
    pc,             \* where each worker is in ProcessJob
    je,             \* the execution each worker loaded (nil: NoJobExecution)
    processed,      \* the local variable processed of ProcessJob
    txWrites,       \* the rows each worker's open transaction has written
    ret,            \* what the last call of ProcessJob returned, per worker
    startCount      \* how many committed transactions started each execution

schedVars == <<now, jeJob, jeStatus,
               jeStartedAt, lockHolder, pc, je, processed, txWrites, ret,
               startCount>>

VARIABLES
    events,        \* the events table (committed rows)
    hookPc,        \* where the webhook handler is in ProcessWebhookRequest
    hookReq,       \* the request being processed and the hook parameters
    hookRet,       \* what the last call of ProcessWebhookRequest returned
    ename,         \* the argument ename of the running CreateEvents
    txSubs,        \* the subscriptions CreateEvents still has to go through
    txEvents,      \* the rows inserted by the open transaction of CreateEvents
    deliveries,    \* how many requests were received
    eventsBefore   \* the events table when the current request was received

hookVars == <<events, hookPc, hookReq, hookRet, ename, txSubs, txEvents,
              deliveries, eventsBefore>>

VARIABLES
    rPc,           \* where the driver of each ssh runner is (Init, ExecuteStep, ...)
    sshClient,     \* Runner.sshClient: nil, open or closed
    sftpClient,    \* Runner.sftpClient: nil, open or closed
    workDir,       \* the directory {root}/{execution_id} on the backend
    rootExists,    \* the root directory of the configuration exists
    deleteLogged,  \* Terminate logged "cannot delete directory"
    initRet,       \* what Init returned
    session,       \* the session of the running ExecuteStep: none, open, closed
    goPc,          \* where the goroutine of ExecuteStep is
    waitErr,       \* what session.Wait returned in the goroutine
    cancelled,     \* the context of the execution is done
    signal,        \* the outcome of session.Signal(SIGKILL)
    stepErr,       \* the local variable err of ExecuteStep
    stepRet,       \* what the last ExecuteStep returned
    stepsDone      \* how many calls of ExecuteStep returned

runnerVars == <<rPc, sshClient, sftpClient, workDir, rootExists, deleteLogged,
                initRet, session, goPc, waitErr, cancelled, signal, stepErr,
                stepRet, stepsDone>>

\* What a step of the scheduler, of the webhook handler and of a runner leave
\* alone.
notSchedVars == <<hookVars, runnerVars>>

notHookVars == <<schedVars, runnerVars>>

notRunnerVars == <<schedVars, hookVars>>

vars == <<schedVars, hookVars, runnerVars>>

(***************************************************************************)
(* What ProcessJob returns: (true, nil), (false, nil) or (false, err).     *)
(* The error tells the statement that failed; RetError stands for the      *)
(* errors of lines 41 and 46 and of the commit, RetStartError for line 56.  *)
(***************************************************************************)
RetNone == "none"

RetProcessed == "processed"

RetNothing == "nothing"

RetError == "error"

RetStartError == "cannot start job execution"

RetErrors == {RetError, RetStartError}

\* The error the closure returns, by the statement that failed.
ClosureError(w) == IF pc[w] = "start" THEN RetStartError ELSE RetError

(***************************************************************************)
(* eventline.LoadJobExecutionForScheduling: the execution in status        *)
(* created, due, whose job is enabled and whose concurrency policy is not  *)
(* exhausted, first by (scheduled_at, id).                                 *)
(***************************************************************************)
InFlight(j) == {e \in JobExecutionIds : jeJob[e] = j /\ jeStatus[e] = "started"}

Schedulable(e) ==
    /\ jeStatus[e] = "created"
    /\ ScheduledAt(e) <= now
    /\ ~JobDisabled(jeJob[e])
    /\ (JobConcurrent(jeJob[e]) \/ InFlight(jeJob[e]) = {})

SchedulingOrder(e1, e2) ==
    \/ ScheduledAt(e1) < ScheduledAt(e2)
    \/ ScheduledAt(e1) = ScheduledAt(e2) /\ e1 <= e2

SchedulableSet == {e \in JobExecutionIds : Schedulable(e)}

NextJobExecution ==
    IF SchedulableSet = {} THEN NoJobExecution
    ELSE CHOOSE e \in SchedulableSet :
             \A e2 \in SchedulableSet : SchedulingOrder(e, e2)

(***************************************************************************)
(* pg.WithTx: the end of a transaction.  Commit applies the staged writes  *)
(* and rollback drops them; both release the advisory lock, which is held  *)
(* until the end of the transaction.                                       *)
(***************************************************************************)
ReleaseLock(w) == IF lockHolder = w THEN NoWorker ELSE lockHolder

Written(w) == {r.id : r \in txWrites[w]}

RowOf(w, e) == CHOOSE r \in txWrites[w] : r.id = e

CommitTx(w) ==
    /\ jeStatus' = [e \in JobExecutionIds |->
                      IF e \in Written(w) THEN RowOf(w, e).status ELSE jeStatus[e]]
    /\ jeStartedAt' = [e \in JobExecutionIds |->
                      IF e \in Written(w) THEN RowOf(w, e).started_at
                      ELSE jeStartedAt[e]]
    /\ startCount' = [e \in JobExecutionIds |->
                      IF e \in Written(w) /\ RowOf(w, e).status = "started"
                      THEN startCount[e] + 1 ELSE startCount[e]]
    /\ txWrites' = [txWrites EXCEPT ![w] = {}]
    /\ lockHolder' = ReleaseLock(w)

RollbackTx(w) ==
    /\ txWrites' = [txWrites EXCEPT ![w] = {}]
    /\ lockHolder' = ReleaseLock(w)
    /\ UNCHANGED <<jeStatus, jeStartedAt, startCount>>

\* A ProcessJob whose closure swallows the error: the transaction commits
\* what it wrote and the error is returned all the same.
ReturnErrorCommitted(w) ==
    /\ CommitTx(w)
    /\ pc' = [pc EXCEPT ![w] = "idle"]
    /\ ret' = [ret EXCEPT ![w] = ClosureError(w)]
    /\ processed' = [processed EXCEPT ![w] = FALSE]
    /\ je' = [je EXCEPT ![w] = NoJobExecution]
    /\ UNCHANGED <<notSchedVars, now, jeJob>>

\* ProcessJob, lines 63-65: the transaction failed, return (false, err).
ReturnError(w) ==
    /\ RollbackTx(w)
    /\ pc' = [pc EXCEPT ![w] = "idle"]
    /\ ret' = [ret EXCEPT ![w] = ClosureError(w)]
    /\ processed' = [processed EXCEPT ![w] = FALSE]
    /\ je' = [je EXCEPT ![w] = NoJobExecution]
    /\ UNCHANGED <<notSchedVars, now, jeJob>>

(***************************************************************************)
(* JobScheduler.ProcessJob, one action per statement of the closure.       *)
(***************************************************************************)
\* A scheduler that does not wait for the advisory lock.
LockNeverWaited == TRUE

\* pg.TakeAdvisoryLock blocks until the lock is free.
LockAvailable == lockHolder = NoWorker

\* A ProcessJob that goes on to the selection without the advisory lock.
TakeAdvisoryLockSkipped(w) ==
    /\ pc[w] = "idle"
    /\ pc' = [pc EXCEPT ![w] = "load"]
    /\ je' = [je EXCEPT ![w] = NoJobExecution]
    /\ processed' = [processed EXCEPT ![w] = FALSE]
    /\ ret' = [ret EXCEPT ![w] = RetNone]
    /\ UNCHANGED <<notSchedVars, now, jeJob, lockHolder,
                   jeStatus, jeStartedAt, txWrites, startCount>>

\* Lines 34-42: open the transaction and take the advisory lock.
TakeAdvisoryLock(w) ==
    /\ pc[w] = "idle"
    /\ LockAvailable
    /\ lockHolder' = w
    /\ pc' = [pc EXCEPT ![w] = "load"]
    /\ je' = [je EXCEPT ![w] = NoJobExecution]
    /\ processed' = [processed EXCEPT ![w] = FALSE]
    /\ ret' = [ret EXCEPT ![w] = RetNone]
    /\ UNCHANGED <<notSchedVars, now, jeJob,
                   jeStatus, jeStartedAt, txWrites, startCount>>

\* Lines 40-42: taking the lock fails (or the transaction cannot be opened).
TakeAdvisoryLockError(w) ==
    /\ pc[w] = "idle"
    /\ je' = [je EXCEPT ![w] = NoJobExecution]
    /\ processed' = [processed EXCEPT ![w] = FALSE]
    /\ RollbackTx(w)
    /\ ret' = [ret EXCEPT ![w] = RetError]
    /\ UNCHANGED <<notSchedVars, now, jeJob, pc>>

\* A ProcessJob with the test of line 47 inverted: it returns when an
\* execution was found.
LoadJobExecutionInverted(w) ==
    /\ pc[w] = "load"
    /\ je' = [je EXCEPT ![w] = NoJobExecution]
    /\ pc' = [pc EXCEPT ![w] = IF NextJobExecution = NoJobExecution
                               THEN "start" ELSE "commit"]
    /\ UNCHANGED <<notSchedVars, now, jeJob,
                   jeStatus, jeStartedAt, lockHolder, processed, txWrites, ret,
                   startCount>>

\* Lines 44-49: load the next execution; with none, the closure returns nil.
LoadJobExecution(w) ==
    /\ pc[w] = "load"
    /\ je' = [je EXCEPT ![w] = NextJobExecution]
    /\ pc' = [pc EXCEPT ![w] = IF NextJobExecution = NoJobExecution
                               THEN "commit" ELSE "start"]
    /\ UNCHANGED <<notSchedVars, now, jeJob,
                   jeStatus, jeStartedAt, lockHolder, processed, txWrites, ret,
                   startCount>>

\* Lines 45-46: the query fails.
LoadJobExecutionError(w) ==
    /\ pc[w] = "load"
    /\ ReturnError(w)

\* Service.StartJobExecution: created -> started, started_at = now.
StartedRow(e) == [id |-> e, status |-> "started", started_at |-> now]

\* A ProcessJob that starts the execution and leaves processed as it was.
StartJobExecutionUnflagged(w) ==
    /\ pc[w] = "start"
    /\ txWrites' = [txWrites EXCEPT ![w] = {StartedRow(je[w])}]
    /\ pc' = [pc EXCEPT ![w] = "commit"]
    /\ UNCHANGED <<notSchedVars, now, jeJob, processed,
                   jeStatus, jeStartedAt, lockHolder, je, ret, startCount>>

\* Lines 51-61: start the execution in the transaction, processed = true.
StartJobExecution(w) ==
    /\ pc[w] = "start"
    /\ txWrites' = [txWrites EXCEPT ![w] = {StartedRow(je[w])}]
    /\ processed' = [processed EXCEPT ![w] = TRUE]
    /\ pc' = [pc EXCEPT ![w] = "commit"]
    /\ UNCHANGED <<notSchedVars, now, jeJob,
                   jeStatus, jeStartedAt, lockHolder, je, ret, startCount>>

\* Lines 55-58: StartJobExecution returns an error.
StartJobExecutionError(w) ==
    /\ pc[w] = "start"
    /\ ReturnError(w)

\* Lines 62-67: the closure returned nil, the transaction commits and
\* ProcessJob returns (processed, nil).
Commit(w) ==
    /\ pc[w] = "commit"
    /\ CommitTx(w)
    /\ pc' = [pc EXCEPT ![w] = "idle"]
    /\ ret' = [ret EXCEPT ![w] = IF processed[w] THEN RetProcessed ELSE RetNothing]
    /\ je' = [je EXCEPT ![w] = NoJobExecution]
    /\ processed' = [processed EXCEPT ![w] = FALSE]
    /\ UNCHANGED <<notSchedVars, now, jeJob>>

\* Lines 62-65: the commit fails, the transaction is rolled back.
CommitError(w) ==
    /\ pc[w] = "commit"
    /\ ReturnError(w)

(***************************************************************************)
(* The execution driver finalises a started execution.                     *)
(***************************************************************************)
FinishJobExecution(e) ==
    /\ jeStatus[e] = "started"
    /\ jeStatus' = [jeStatus EXCEPT ![e] = Outcome(e)]
    /\ UNCHANGED <<notSchedVars, now, jeJob,
                   jeStartedAt, lockHolder, pc, je, processed, txWrites, ret,
                   startCount>>

\* Time passes.
TimePasses ==
    /\ now < MaxTime
    /\ now' = now + 1
    /\ UNCHANGED <<notSchedVars, jeJob, jeStatus,
                   jeStartedAt, lockHolder, pc, je, processed, txWrites, ret,
                   startCount>>

(***************************************************************************)
(* The github connector: webhooks.                                         *)
(***************************************************************************)
Organizations == {"acme", "other"}

Repositories == {"tool", "lib"}

\* Parameters.Repository is empty for a hook or a subscription on a whole
\* organization.
AnyRepository == ""

HookParameters ==
    [organization : Organizations, repository : Repositories \cup {AnyRepository}]

(***************************************************************************)
(* The subscriptions table joined to c_github_subscriptions.               *)
(***************************************************************************)
Sub(id, event, org, repo, status) ==
    [id |-> id, connector |-> "github", event |-> event, organization |-> org,
     repository |-> repo, status |-> status]

Subscriptions ==
    {Sub(1, "raw", "acme", AnyRepository, "active"),
     Sub(2, "raw", "acme", "tool", "inactive"),
     Sub(3, "repository_creation", "acme", AnyRepository, "active"),
     Sub(4, "repository_creation", "acme", "tool", "active"),
     Sub(5, "repository_creation", "acme", "lib", "active"),
     Sub(6, "repository_creation", "other", AnyRepository, "active"),
     Sub(7, "repository_creation", "acme", "tool", "terminating"),
     Sub(8, "repository_deletion", "acme", "tool", "active")}

(***************************************************************************)
(* The payloads a request carries.  A field github leaves out is Absent;   *)
(* an organization without login and a repository without name are         *)
(* Unnamed.                                                                 *)
(***************************************************************************)
Absent == "<nil>"

Unnamed == "<unnamed>"

NoEventTime == 0

Payload(type, decodes, action, org, repo, time) ==
    [type |-> type, decodes |-> decodes, action |-> action, org |-> org,
     repo |-> repo, time |-> time]

RepositoryPayloads ==
    {Payload("repository", TRUE, a, o, r, NoEventTime) :
        a \in {"created", "deleted"},
        o \in Organizations \cup {Absent, Unnamed},
        r \in Repositories \cup {Absent, Unnamed}}
    \cup {Payload("repository", TRUE, "created", "acme", "tool", 1),
          Payload("repository", TRUE, "deleted", "acme", "tool", 1),
          Payload("repository", TRUE, "archived", "acme", "tool", NoEventTime),
          Payload("repository", TRUE, Absent, "acme", "tool", NoEventTime)}

Payloads ==
    RepositoryPayloads
    \cup {Payload("push", TRUE, Absent, Absent, Absent, NoEventTime),
          Payload("ping", TRUE, Absent, Absent, Absent, NoEventTime),
          \* an event type github.ParseWebHook does not know
          Payload("bogus", TRUE, Absent, Absent, Absent, NoEventTime),
          \* a body that is not JSON
          Payload("push", FALSE, Absent, Absent, Absent, NoEventTime)}

DeliveryIds == {"d1", "d2"}

(***************************************************************************)
(* Strings as numbers, for the signatures.                                 *)
(***************************************************************************)
StringCode(str) ==
    CASE str = "acme" -> 1 [] str = "other" -> 2 [] str = "tool" -> 3
      [] str = "lib" -> 4 [] str = "repository" -> 5 [] str = "push" -> 6
      [] str = "ping" -> 7 [] str = "bogus" -> 8 [] str = "created" -> 9
      [] str = "deleted" -> 10 [] str = "archived" -> 11 [] str = Unnamed -> 12
      [] OTHER -> 0

\* Parameters.Target: the organization, then the repository if any.
Target(params) ==
    StringCode(params.organization) * 8 + StringCode(params.repository)

\* The bytes of the body of a request.
Body(payload) ==
    ((((StringCode(payload.type) * 13 + StringCode(payload.action)) * 13
        + StringCode(payload.org)) * 13 + StringCode(payload.repo)) * 2
        + payload.time) * 2 + (IF payload.decodes THEN 1 ELSE 0)

\* c.webhookKey
WebhookKey == 7

\* hmac.New(sha256.New, key), Write(value), Sum(nil): a keyed hash.
Hmac(key, value) == (key * 31 + value * 17 + 3) % 251

\* hex.EncodeToString: the two hexadecimal digits of a byte.
HexEncode(code) == <<code \div 16, code % 16>>

\* []byte(secret): the key made of the characters of the secret.
KeyBytes(secret) == secret[1] * 19 + secret[2] + 1

\* Connector.WebhookSecret, lines 38-47.
WebhookSecret(params) == HexEncode(Hmac(WebhookKey, Target(params)))

\* The signature a sender who knows `secret` puts on a body.
Signature(secret, payload) == Hmac(KeyBytes(secret), Body(payload))

UnsignedSignature == 0

\* The hook of the same repository in the other organization.
OtherHook(params) ==
    [params EXCEPT !.organization = IF @ = "acme" THEN "other" ELSE "acme"]

\* A sender signs with the secret of the hook it posts to, with the secret of
\* another hook, or does not sign.
Signatures(payload, params) ==
    {Signature(WebhookSecret(params), payload),
     Signature(WebhookSecret(OtherHook(params)), payload),
     UnsignedSignature}

\* A handler that ignores the result of the signature check.
SignatureIgnored(req, params) == TRUE

\* github.ValidatePayload(req, []byte(secret)), lines 50-54.
SignatureValid(req, params) ==
    req.signature = Signature(WebhookSecret(params), req.payload)

NoRequest ==
    [params |-> [organization |-> Absent, repository |-> AnyRepository],
     delivery_id |-> Absent, signature |-> UnsignedSignature,
     payload |-> Payload(Absent, FALSE, Absent, Absent, Absent, NoEventTime)]

(***************************************************************************)
(* LoadSubscriptionsByParams, lines 195-224.                               *)
(***************************************************************************)
LoadSubscriptionsByParams(name, params) ==
    {sub \in Subscriptions :
        /\ sub.connector = "github"
        /\ sub.event = name
        /\ sub.organization = params.organization
        /\ (params.repository = AnyRepository
              \/ sub.repository = params.repository)}

(***************************************************************************)
(* The event data, lines 62-66, 120-123 and 155-158, and the row           *)
(* Subscription.NewEvent makes of it.                                       *)
(***************************************************************************)
EventData(deliveryId, type, payload, org, repo) ==
    [delivery_id |-> deliveryId, event_type |-> type, event |-> payload,
     organization |-> org, repository |-> repo]

\* A raw event that leaves the payload out.
RawEventDataNoPayload(req) ==
    EventData(req.delivery_id, req.payload.type, 0, Absent, Absent)

RawEventData(req) ==
    EventData(req.delivery_id, req.payload.type, Body(req.payload), Absent, Absent)

RepositoryEventData(req) ==
    EventData(Absent, Absent, 0, req.payload.org, req.payload.repo)

CurrentEventData ==
    IF ename = "raw" THEN RawEventData(hookReq) ELSE RepositoryEventData(hookReq)

CurrentEventTime ==
    IF ename = "raw" THEN NoEventTime ELSE hookReq.payload.time

\* Event.Id: a fresh identifier for every row.
NextEventId == Cardinality(events) + Cardinality(txEvents) + 1

NewEvent(sub, name, eventTime, data) ==
    [id |-> NextEventId, delivery |-> deliveries, subscription_id |-> sub.id,
     name |-> name, connector |-> "github", event_time |-> eventTime,
     data |-> data]

\* for _, sub := range subs: the rows in the order of the query result.
NextSubscription ==
    CHOOSE sub \in txSubs : \A other \in txSubs : sub.id <= other.id

(***************************************************************************)
(* Connector.ProcessWebhookRequest, lines 49-96.                           *)
(***************************************************************************)
HookReturn(result) ==
    /\ hookPc' = "done"
    /\ hookRet' = result
    /\ ename' = Absent
    /\ txSubs' = {}
    /\ txEvents' = {}

\* A request arrives on the hook of `params`.
ReceiveRequest ==
    /\ hookPc = "idle"
    /\ deliveries < MaxDeliveries
    /\ \E params \in HookParameters, payload \in Payloads, d \in DeliveryIds :
         \E sig \in Signatures(payload, params) :
            hookReq' = [params |-> params, delivery_id |-> d, signature |-> sig,
                        payload |-> payload]
    /\ deliveries' = deliveries + 1
    /\ eventsBefore' = events
    /\ hookPc' = "validate"
    /\ hookRet' = "none"
    /\ UNCHANGED <<notHookVars, events, ename, txSubs, txEvents>>

\* Lines 50-54.
ValidatePayload ==
    /\ hookPc = "validate"
    /\ IF SignatureValid(hookReq, hookReq.params)
       THEN hookPc' = "decode" /\ UNCHANGED <<hookRet, ename, txSubs, txEvents>>
       ELSE HookReturn("invalid signature")
    /\ UNCHANGED <<notHookVars, events, hookReq, deliveries, eventsBefore>>

\* Lines 56-68: decode the payload; CreateEvents("raw", ...) is next.
DecodePayload ==
    /\ hookPc = "decode"
    /\ IF hookReq.payload.decodes
       THEN /\ hookPc' = "create"
            /\ ename' = "raw"
            /\ UNCHANGED <<hookRet, txSubs, txEvents>>
       ELSE HookReturn("cannot decode payload")
    /\ UNCHANGED <<notHookVars, events, hookReq, deliveries, eventsBefore>>

(***************************************************************************)
(* Connector.CreateEvents, lines 174-193: one transaction.                 *)
(***************************************************************************)
\* Lines 175-181: the transaction begins and the subscriptions are loaded.
LoadSubscriptions ==
    /\ hookPc = "create"
    /\ txSubs' = LoadSubscriptionsByParams(ename, hookReq.params)
    /\ txEvents' = {}
    /\ hookPc' = "insert"
    /\ UNCHANGED <<notHookVars, events, hookReq, hookRet, ename, deliveries,
                   eventsBefore>>

\* A CreateEvents whose failure keeps the rows inserted so far.
CreateEventsErrorCommitted ==
    /\ hookPc \in {"create", "insert"}
    /\ events' = events \cup txEvents
    /\ HookReturn("cannot create event")
    /\ UNCHANGED <<notHookVars, hookReq, deliveries, eventsBefore>>

\* Lines 178-181, 186-188 and 192: loading, an insert or the commit fails; the
\* transaction is rolled back and the caller returns "cannot create event".
CreateEventsError ==
    /\ hookPc \in {"create", "insert"}
    /\ HookReturn("cannot create event")
    /\ UNCHANGED <<notHookVars, events, hookReq, deliveries, eventsBefore>>

\* A loop whose inserts are not made in the transaction: each row is
\* persisted at once.
InsertEventOutsideTx ==
    /\ hookPc = "insert"
    /\ txSubs # {}
    /\ events' = events \cup
           {NewEvent(NextSubscription, ename, CurrentEventTime, CurrentEventData)}
    /\ txSubs' = txSubs \ {NextSubscription}
    /\ UNCHANGED <<notHookVars, txEvents, hookPc, hookReq, hookRet, ename,
                   deliveries, eventsBefore>>

\* Lines 183-189: one turn of the loop.
InsertEvent ==
    /\ hookPc = "insert"
    /\ txSubs # {}
    /\ txEvents' = txEvents \cup
           {NewEvent(NextSubscription, ename, CurrentEventTime, CurrentEventData)}
    /\ txSubs' = txSubs \ {NextSubscription}
    /\ UNCHANGED <<notHookVars, events, hookPc, hookReq, hookRet, ename,
                   deliveries, eventsBefore>>

\* Lines 191-192: the loop is over, the transaction commits.  After the raw
\* events the caller parses the payload (line 73); after the typed events it
\* returns nil (lines 130, 165).
CommitEvents ==
    /\ hookPc = "insert"
    /\ txSubs = {}
    /\ events' = events \cup txEvents
    /\ txEvents' = {}
    /\ IF ename = "raw"
       THEN hookPc' = "parse" /\ UNCHANGED <<hookRet, ename>>
       ELSE hookPc' = "done" /\ hookRet' = "ok" /\ ename' = Absent
    /\ UNCHANGED <<notHookVars, hookReq, txSubs, deliveries, eventsBefore>>

(***************************************************************************)
(* Lines 72-95: the typed events.                                          *)
(***************************************************************************)
\* github.ParseWebHook knows the event type.
KnownEventTypes == {"repository", "push", "ping"}

\* Lines 98-113 and 133-148: what a repository event lacks, if anything.
RepositoryEventError(payload) ==
    IF payload.org = Absent THEN "missing organization"
    ELSE IF payload.org = Unnamed THEN "missing organization login"
    ELSE IF payload.repo = Absent THEN "missing repository"
    ELSE IF payload.repo = Unnamed THEN "missing repository name"
    ELSE "none"

InvalidWebhookEventErrors ==
    {"missing action", "missing organization", "missing organization login",
     "missing repository", "missing repository name"}

\* Lines 73-76.
ParseWebHook ==
    /\ hookPc = "parse"
    /\ IF hookReq.payload.type \in KnownEventTypes
       THEN hookPc' = "dispatch" /\ UNCHANGED <<hookRet, ename, txSubs, txEvents>>
       ELSE HookReturn("cannot parse webhook event")
    /\ UNCHANGED <<notHookVars, events, hookReq, deliveries, eventsBefore>>

\* A handler that checks the repository event after it created the typed
\* events.
DispatchEventCheckedLate ==
    /\ hookPc = "dispatch"
    /\ LET payload == hookReq.payload
           name == IF payload.action = "created" THEN "repository_creation"
                   ELSE "repository_deletion"
       IN
       IF payload.type # "repository" THEN HookReturn("ok") /\ UNCHANGED events
       ELSE IF payload.action = Absent
            THEN HookReturn("missing action") /\ UNCHANGED events
       ELSE IF payload.action \notin {"created", "deleted"}
            THEN HookReturn("ok") /\ UNCHANGED events
       ELSE IF RepositoryEventError(payload) # "none"
            THEN /\ events' = events \cup
                      {NewEvent(sub, name, payload.time,
                                RepositoryEventData(hookReq)) :
                          sub \in LoadSubscriptionsByParams(name, hookReq.params)}
                 /\ HookReturn(RepositoryEventError(payload))
       ELSE /\ hookPc' = "create"
            /\ ename' = name
            /\ UNCHANGED <<events, hookRet, txSubs, txEvents>>
    /\ UNCHANGED <<notHookVars, hookReq, deliveries, eventsBefore>>

\* Lines 78-95 with 98-113 and 133-148: the switch on the event and on the
\* action, and the checks of processWebhookEventRepositoryCreated/Deleted.
DispatchEvent ==
    /\ hookPc = "dispatch"
    /\ LET payload == hookReq.payload IN
       IF payload.type # "repository" THEN HookReturn("ok")
       ELSE IF payload.action = Absent THEN HookReturn("missing action")
       ELSE IF payload.action \notin {"created", "deleted"} THEN HookReturn("ok")
       ELSE IF RepositoryEventError(payload) # "none"
            THEN HookReturn(RepositoryEventError(payload))
       ELSE /\ hookPc' = "create"
            /\ ename' = IF payload.action = "created" THEN "repository_creation"
                        ELSE "repository_deletion"
            /\ UNCHANGED <<hookRet, txSubs, txEvents>>
    /\ UNCHANGED <<notHookVars, events, hookReq, deliveries, eventsBefore>>

\* The call is over; the handler waits for the next request.
FinishRequest ==
    /\ hookPc = "done"
    /\ hookPc' = "idle"
    /\ hookReq' = NoRequest
    /\ hookRet' = "none"
    /\ eventsBefore' = {}
    /\ UNCHANGED <<notHookVars, events, ename, txSubs, txEvents, deliveries>>

HookInit ==
    /\ events = {}
    /\ hookPc = "idle"
    /\ hookReq = NoRequest
    /\ hookRet = "none"
    /\ ename = Absent
    /\ txSubs = {}
    /\ txEvents = {}
    /\ deliveries = 0
    /\ eventsBefore = {}

SchedInit ==
    /\ now = 0
    /\ jeStatus = [e \in JobExecutionIds |-> "created"]
    /\ jeStartedAt = [e \in JobExecutionIds |-> NoTime]
    /\ lockHolder = NoWorker
    /\ pc = [w \in Workers |-> "idle"]
    /\ je = [w \in Workers |-> NoJobExecution]
    /\ processed = [w \in Workers |-> FALSE]
    /\ txWrites = [w \in Workers |-> {}]
    /\ ret = [w \in Workers |-> RetNone]
    /\ startCount = [e \in JobExecutionIds |-> 0]

(***************************************************************************)
(* The ssh runner (pkg/runners/ssh/runner.go).  Two job executions run on  *)
(* the same host with the same configured root directory; each has its own *)
(* Runner, driven through Init, ExecuteStep and Terminate.                 *)
(***************************************************************************)
\* The job executions that have a runner; NewRunner, lines 37-51, gives each
\* the directory {root}/{execution_id}.
RunnerExecutions == {"x", "y"}

\* A client field of the Runner: the nil pointer, a client that is open, a
\* client that was closed.
ClientStates == {"nil", "open", "closed"}

\* The directory {root}/{execution_id}: not there, partly uploaded, uploaded.
DirStates == {"absent", "partial", "complete"}

\* The errors Init and ExecuteStep return.
NoReturn == [kind |-> "none", msg |-> ""]

NilError == [kind |-> "nil", msg |-> ""]

TransportError(msg) == [kind |-> "error", msg |-> msg]

\* eventline.NewStepFailureError(err).
StepFailureError(msg) == [kind |-> "StepFailure", msg |-> msg]

\* context.Canceled.
ContextCanceled == [kind |-> "canceled", msg |-> "context canceled"]

\* Lines 57-62: r.connect succeeds and r.sshClient is set.
Connect(x) ==
    /\ rPc[x] = "new"
    /\ sshClient' = [sshClient EXCEPT ![x] = "open"]
    /\ rPc' = [rPc EXCEPT ![x] = "init_sftp"]
    /\ UNCHANGED <<notRunnerVars, sftpClient, workDir, rootExists, deleteLogged,
                   initRet, session, goPc, waitErr, cancelled, signal, stepErr,
                   stepRet, stepsDone>>

\* Lines 58-61: r.connect fails, Init returns with no client.
ConnectError(x) ==
    /\ rPc[x] = "new"
    /\ initRet' = [initRet EXCEPT ![x] = TransportError("cannot connect")]
    /\ rPc' = [rPc EXCEPT ![x] = "init_failed"]
    /\ UNCHANGED <<notRunnerVars, sshClient, sftpClient, workDir, rootExists,
                   deleteLogged, session, goPc, waitErr, cancelled, signal,
                   stepErr, stepRet, stepsDone>>

\* Line 64: sftp.NewClient succeeds and r.sftpClient is set.
NewSftpClient(x) ==
    /\ rPc[x] = "init_sftp"
    /\ sftpClient' = [sftpClient EXCEPT ![x] = "open"]
    /\ rPc' = [rPc EXCEPT ![x] = "init_upload"]
    /\ UNCHANGED <<notRunnerVars, sshClient, workDir, rootExists, deleteLogged,
                   initRet, session, goPc, waitErr, cancelled, signal, stepErr,
                   stepRet, stepsDone>>

\* Lines 64-67: sftp.NewClient fails and returns (nil, err): r.sftpClient is
\* assigned nil, Init returns the error with the ssh client open.
NewSftpClientError(x) ==
    /\ rPc[x] = "init_sftp"
    /\ sftpClient' = [sftpClient EXCEPT ![x] = "nil"]
    /\ initRet' = [initRet EXCEPT ![x] =
                      TransportError("cannot create sftp client")]
    /\ rPc' = [rPc EXCEPT ![x] = "init_failed"]
    /\ UNCHANGED <<notRunnerVars, sshClient, workDir, rootExists, deleteLogged,
                   session, goPc, waitErr, cancelled, signal, stepErr, stepRet,
                   stepsDone>>

\* Lines 69-73: the file set is uploaded under {root}/{execution_id} and Init
\* returns nil.
UploadFileSet(x) ==
    /\ rPc[x] = "init_upload"
    /\ workDir' = [workDir EXCEPT ![x] = "complete"]
    /\ initRet' = [initRet EXCEPT ![x] = NilError]
    /\ rPc' = [rPc EXCEPT ![x] = "ready"]
    /\ UNCHANGED <<notRunnerVars, sshClient, sftpClient, rootExists,
                   deleteLogged, session, goPc, waitErr, cancelled, signal,
                   stepErr, stepRet, stepsDone>>

\* Lines 69-71: the upload fails, before or after it wrote some files.
UploadFileSetError(x) ==
    /\ rPc[x] = "init_upload"
    /\ \E dir \in {"absent", "partial"} :
          workDir' = [workDir EXCEPT ![x] = dir]
    /\ initRet' = [initRet EXCEPT ![x] = TransportError("cannot upload file set")]
    /\ rPc' = [rPc EXCEPT ![x] = "init_failed"]
    /\ UNCHANGED <<notRunnerVars, sshClient, sftpClient, rootExists,
                   deleteLogged, session, goPc, waitErr, cancelled, signal,
                   stepErr, stepRet, stepsDone>>

\* When the driver may call Terminate: Init was not called, Init returned,
\* or the last ExecuteStep returned.
Terminable == {"new", "init_failed", "ready", "step_failed"}

\* A Terminate that takes the sftp client for granted.
SftpClientAssumed(x) == TRUE

\* Line 79: r.sftpClient != nil.
SftpClientSet(x) == sftpClient[x] # "nil"

\* A Terminate that leaves the ssh client alone.
SshClientForgotten(x) == FALSE

\* Line 90: r.sshClient != nil.
SshClientSet(x) == sshClient[x] # "nil"

\* A method is called on a nil client.
NilClientUsed(x) ==
    \/ SftpClientSet(x) /\ sftpClient[x] = "nil"
    \/ SshClientSet(x) /\ sshClient[x] = "nil"

\* r.deleteDirectoryContent(cfg.RootDirectory), line 83: the entries of the
\* root directory are removed, all of them unless the deletion fails, and the
\* root directory stays.  `kept` are the entries a failed deletion left.
DeleteDirectoryContent(kept) ==
    [y \in RunnerExecutions |-> IF y \in kept THEN workDir[y] ELSE "absent"]

\* Runner.Terminate, lines 76-93.
Terminate(x) ==
    /\ rPc[x] \in Terminable
    /\ rPc' = [rPc EXCEPT ![x] = IF NilClientUsed(x) THEN "panic" ELSE "terminated"]
    /\ IF SftpClientSet(x) /\ ~NilClientUsed(x)
       THEN /\ \E failed \in BOOLEAN : \E kept \in SUBSET RunnerExecutions :
                  /\ ~failed => kept = {}
                  /\ workDir' = DeleteDirectoryContent(kept)
                  /\ deleteLogged' = [deleteLogged EXCEPT ![x] = failed]
            /\ sftpClient' = [sftpClient EXCEPT ![x] = "closed"]
       ELSE UNCHANGED <<workDir, deleteLogged, sftpClient>>
    /\ IF SshClientSet(x) /\ ~NilClientUsed(x)
       THEN sshClient' = [sshClient EXCEPT ![x] = "closed"]
       ELSE UNCHANGED sshClient
    /\ UNCHANGED <<notRunnerVars, rootExists, initRet, session, goPc, waitErr,
                   cancelled, signal, stepErr, stepRet, stepsDone>>

(***************************************************************************)
(* Runner.ExecuteStep, lines 95-144, one action per statement, and the     *)
(* goroutine it starts.                                                    *)
(***************************************************************************)
\* What session.Wait returns: nil when the command exited with status 0, an
\* *ssh.ExitError when it exited with another status or was killed by a
\* signal (the status is then 128 + the number of the signal), another error
\* when the exit was not reported.
WaitNil == [type |-> "nil", status |-> 0, signal |-> ""]

ExitError(status, sig) == [type |-> "ExitError", status |-> status, signal |-> sig]

ExitMissingError == [type |-> "ExitMissingError", status |-> 0, signal |-> ""]

WaitResults == {WaitNil, ExitError(2, ""), ExitError(137, "KILL"), ExitMissingError}

\* Runner.translateExitError, lines 146-154.
translateExitError(err) ==
    IF err.status # 0
    THEN "program exited with status " \o ToString(err.status)
    ELSE IF err.signal # ""
         THEN "program killed by signal " \o err.signal
         ELSE "Process exited with status 0"

\* An ExecuteStep that returns what session.Wait returned as it is.
ReceivedErrorUnwrapped(err) ==
    IF err.type = "nil" THEN NilError
    ELSE TransportError("wait: remote command exited without exit status")

\* Lines 126-130: the error received from the goroutine, turned into a step
\* failure when it is an *ssh.ExitError.
ReceivedError(err) ==
    IF err.type = "ExitError" THEN StepFailureError(translateExitError(err))
    ELSE IF err.type = "nil" THEN NilError
    ELSE TransportError("wait: remote command exited without exit status")

\* ExecuteStep returns err: the driver goes on with the next step after nil
\* and stops the execution after an error.
ReturnStep(x, err) ==
    /\ stepRet' = [stepRet EXCEPT ![x] = err]
    /\ stepsDone' = [stepsDone EXCEPT ![x] = stepsDone[x] + 1]
    /\ rPc' = [rPc EXCEPT ![x] = IF err = NilError THEN "ready" ELSE "step_failed"]

\* Lines 97-103: ExecuteStep is called and opens a session.
NewSession(x) ==
    /\ rPc[x] = "ready"
    /\ stepsDone[x] < MaxSteps
    /\ session' = [session EXCEPT ![x] = "open"]
    /\ goPc' = [goPc EXCEPT ![x] = "none"]
    /\ stepRet' = [stepRet EXCEPT ![x] = NoReturn]
    /\ stepErr' = [stepErr EXCEPT ![x] = NoReturn]
    /\ rPc' = [rPc EXCEPT ![x] = "es_setenv"]
    /\ UNCHANGED <<notRunnerVars, sshClient, sftpClient, workDir, rootExists,
                   deleteLogged, initRet, waitErr, cancelled, signal, stepsDone>>

\* Lines 97-100: the session cannot be opened.
NewSessionError(x) ==
    /\ rPc[x] = "ready"
    /\ stepsDone[x] < MaxSteps
    /\ session' = [session EXCEPT ![x] = "none"]
    /\ goPc' = [goPc EXCEPT ![x] = "none"]
    /\ stepErr' = [stepErr EXCEPT ![x] = NoReturn]
    /\ ReturnStep(x, TransportError("cannot open session"))
    /\ UNCHANGED <<notRunnerVars, sshClient, sftpClient, workDir, rootExists,
                   deleteLogged, initRet, waitErr, cancelled, signal>>

\* Lines 105-109: every variable of the environment is set on the session.
Setenv(x) ==
    /\ rPc[x] = "es_setenv"
    /\ rPc' = [rPc EXCEPT ![x] = "es_start"]
    /\ UNCHANGED <<notRunnerVars, sshClient, sftpClient, workDir, rootExists,
                   deleteLogged, initRet, session, goPc, waitErr, cancelled,
                   signal, stepErr, stepRet, stepsDone>>

\* Lines 106-108: a variable cannot be set, ExecuteStep returns at once.
SetenvError(x) ==
    /\ rPc[x] = "es_setenv"
    /\ ReturnStep(x, TransportError("cannot set environment variable"))
    /\ UNCHANGED <<notRunnerVars, sshClient, sftpClient, workDir, rootExists,
                   deleteLogged, initRet, session, goPc, waitErr, cancelled,
                   signal, stepErr>>

\* Lines 112-123: the command is started and the goroutine that waits for it
\* is spawned.
StartCommand(x) ==
    /\ rPc[x] = "es_start"
    /\ goPc' = [goPc EXCEPT ![x] = "wait"]
    /\ rPc' = [rPc EXCEPT ![x] = "es_select"]
    /\ UNCHANGED <<notRunnerVars, sshClient, sftpClient, workDir, rootExists,
                   deleteLogged, initRet, session, waitErr, cancelled, signal,
                   stepErr, stepRet, stepsDone>>

\* Lines 114-116: the command cannot be started, ExecuteStep returns at once.
StartCommandError(x) ==
    /\ rPc[x] = "es_start"
    /\ ReturnStep(x, TransportError("cannot start command"))
    /\ UNCHANGED <<notRunnerVars, sshClient, sftpClient, workDir, rootExists,
                   deleteLogged, initRet, session, goPc, waitErr, cancelled,
                   signal, stepErr>>

\* Line 121, in the goroutine: session.Wait returns (the command ended, or
\* the session was closed) and the goroutine goes to its send on errChan.
SessionWait(x) ==
    /\ goPc[x] = "wait"
    /\ \E res \in WaitResults : waitErr' = [waitErr EXCEPT ![x] = res]
    /\ goPc' = [goPc EXCEPT ![x] = "send"]
    /\ UNCHANGED <<notRunnerVars, rPc, sshClient, sftpClient, workDir,
                   rootExists, deleteLogged, initRet, session, cancelled,
                   signal, stepErr, stepRet, stepsDone>>

\* Lines 121-122 and 126-130: errChan is unbuffered, the send of the
\* goroutine and the receive of the select happen together; the goroutine
\* then closes the channel and ends.
ReceiveErr(x) ==
    /\ rPc[x] = "es_select"
    /\ goPc[x] = "send"
    /\ stepErr' = [stepErr EXCEPT ![x] = ReceivedError(waitErr[x])]
    /\ goPc' = [goPc EXCEPT ![x] = "exited"]
    /\ rPc' = [rPc EXCEPT ![x] = "es_close"]
    /\ UNCHANGED <<notRunnerVars, sshClient, sftpClient, workDir, rootExists,
                   deleteLogged, initRet, session, waitErr, cancelled, signal,
                   stepRet, stepsDone>>

\* An ExecuteStep that leaves the select on a done context without a signal
\* and goes on as if the command had ended well.
ContextDoneIgnored(x) ==
    /\ rPc[x] = "es_select"
    /\ cancelled[x]
    /\ stepErr' = [stepErr EXCEPT ![x] = NilError]
    /\ rPc' = [rPc EXCEPT ![x] = "es_close"]
    /\ UNCHANGED <<notRunnerVars, sshClient, sftpClient, workDir, rootExists,
                   deleteLogged, initRet, session, goPc, waitErr, cancelled,
                   signal, stepRet, stepsDone>>

\* Lines 132-137: the context is done; the kill signal is sent, or sending
\* it fails and the failure is logged.
ContextDone(x) ==
    /\ rPc[x] = "es_select"
    /\ cancelled[x]
    /\ \E sent \in {"sent", "failed"} : signal' = [signal EXCEPT ![x] = sent]
    /\ stepErr' = [stepErr EXCEPT ![x] = ContextCanceled]
    /\ rPc' = [rPc EXCEPT ![x] = "es_close"]
    /\ UNCHANGED <<notRunnerVars, sshClient, sftpClient, workDir, rootExists,
                   deleteLogged, initRet, session, goPc, waitErr, cancelled,
                   stepRet, stepsDone>>

\* Lines 141-143: the session is closed and err is returned.
CloseSession(x) ==
    /\ rPc[x] = "es_close"
    /\ session' = [session EXCEPT ![x] = "closed"]
    /\ ReturnStep(x, stepErr[x])
    /\ UNCHANGED <<notRunnerVars, sshClient, sftpClient, workDir, rootExists,
                   deleteLogged, initRet, goPc, waitErr, cancelled, signal,
                   stepErr>>

\* The context of the execution is cancelled while a step is executing.
Cancel(x) ==
    /\ rPc[x] \in {"es_setenv", "es_start", "es_select"}
    /\ ~cancelled[x]
    /\ cancelled' = [cancelled EXCEPT ![x] = TRUE]
    /\ UNCHANGED <<notRunnerVars, rPc, sshClient, sftpClient, workDir,
                   rootExists, deleteLogged, initRet, session, goPc, waitErr,
                   signal, stepErr, stepRet, stepsDone>>

RunnerInit ==
    /\ rPc = [x \in RunnerExecutions |-> "new"]
    /\ sshClient = [x \in RunnerExecutions |-> "nil"]
    /\ sftpClient = [x \in RunnerExecutions |-> "nil"]
    /\ workDir = [x \in RunnerExecutions |-> "absent"]
    /\ rootExists = TRUE
    /\ deleteLogged = [x \in RunnerExecutions |-> FALSE]
    /\ initRet = [x \in RunnerExecutions |-> NoReturn]
    /\ session = [x \in RunnerExecutions |-> "none"]
    /\ goPc = [x \in RunnerExecutions |-> "none"]
    /\ waitErr = [x \in RunnerExecutions |-> WaitNil]
    /\ cancelled = [x \in RunnerExecutions |-> FALSE]
    /\ signal = [x \in RunnerExecutions |-> "none"]
    /\ stepErr = [x \in RunnerExecutions |-> NoReturn]
    /\ stepRet = [x \in RunnerExecutions |-> NoReturn]
    /\ stepsDone = [x \in RunnerExecutions |-> 0]

Init ==
    /\ jeJob \in JobLayouts
    /\ SchedInit
    /\ HookInit
    /\ RunnerInit

WebhookInit ==
    /\ jeJob = [e \in JobExecutionIds |-> "serial"]
    /\ SchedInit
    /\ HookInit
    /\ RunnerInit

ProcessWebhookRequest ==
    \/ ReceiveRequest
    \/ ValidatePayload
    \/ DecodePayload
    \/ LoadSubscriptions
    \/ CreateEventsError
    \/ InsertEvent
    \/ CommitEvents
    \/ ParseWebHook
    \/ DispatchEvent
    \/ FinishRequest

WebhookSpec == WebhookInit /\ [][ProcessWebhookRequest]_vars

\* The driver of an execution: Init, the steps, Terminate.
RunnerDriver(x) ==
    \/ Connect(x)
    \/ ConnectError(x)
    \/ NewSftpClient(x)
    \/ NewSftpClientError(x)
    \/ UploadFileSet(x)
    \/ UploadFileSetError(x)
    \/ NewSession(x)
    \/ NewSessionError(x)
    \/ Setenv(x)
    \/ SetenvError(x)
    \/ StartCommand(x)
    \/ StartCommandError(x)
    \/ SessionWait(x)
    \/ ReceiveErr(x)
    \/ ContextDone(x)
    \/ CloseSession(x)
    \/ Cancel(x)
    \/ Terminate(x)

RunnerNext == \E x \in RunnerExecutions : RunnerDriver(x)

RunnerSpec == WebhookInit /\ [][RunnerNext]_vars

ProcessJob(w) ==
    \/ TakeAdvisoryLock(w)
    \/ TakeAdvisoryLockError(w)
    \/ LoadJobExecution(w)
    \/ LoadJobExecutionError(w)
    \/ StartJobExecution(w)
    \/ StartJobExecutionError(w)
    \/ Commit(w)
    \/ CommitError(w)

Next ==
    \/ \E w \in Workers : ProcessJob(w)
    \/ \E e \in JobExecutionIds : FinishJobExecution(e)
    \/ TimePasses

Spec == Init /\ [][Next]_vars

(***************************************************************************)
(* The workers keep calling ProcessJob, each statement of a call succeeds  *)
(* again and again (for some worker), and the driver finalises what was    *)
(* started.                                                                *)
(***************************************************************************)
Fairness ==
    /\ SF_vars(\E w \in Workers : TakeAdvisoryLock(w))
    /\ SF_vars(\E w \in Workers : LoadJobExecution(w))
    /\ SF_vars(\E w \in Workers : StartJobExecution(w))
    /\ SF_vars(\E w \in Workers : Commit(w))
    /\ WF_vars(\E e \in JobExecutionIds : FinishJobExecution(e))

SpecFair == Init /\ [][Next]_vars /\ Fairness

(***************************************************************************)
(* Properties of the job scheduler.                                        *)
(***************************************************************************)

\* C1: no job execution is started more than once: StartJobExecution takes
\* effect in at most one committed transaction per execution, and the
\* execution a worker selected under the advisory lock was not started by a
\* transaction committed earlier.
C1_StartedAtMostOnce ==
    /\ \A e \in JobExecutionIds : startCount[e] <= 1
    /\ \A w \in Workers :
          (pc[w] \in {"start", "commit"} /\ je[w] # NoJobExecution)
              => (startCount[je[w]] = 0 /\ jeStatus[je[w]] = "created")

\* Two workers returned (true, nil) and every execution was started once.
C1_Witness ==
    /\ \A e \in JobExecutionIds : startCount[e] = 1
    /\ \E w1, w2 \in Workers :
          w1 # w2 /\ ret[w1] = RetProcessed /\ ret[w2] = RetProcessed

\* C2: no execution is dropped: with every worker calling ProcessJob again
\* and again and transactions committing, an execution that is created and
\* schedulable is eventually started.
C2_NoDrop ==
    \A e \in JobExecutionIds : Schedulable(e) ~> (jeStatus[e] = "started")

\* Every execution of the job that runs one execution at a time was started.
C2_Witness ==
    \A e \in JobExecutionIds : jeJob[e] = "serial" /\ startCount[e] = 1

\* C9: a tick that fails is rolled back: the call returns (false, err), no
\* row changed, the lock is free again, and the execution it had selected is
\* still created and schedulable.
C9_FailedTickRolledBack ==
    [][\A w \in Workers :
          (pc[w] # "idle" /\ pc'[w] = "idle" /\ ret'[w] \in RetErrors)
              => /\ jeStatus' = jeStatus
                 /\ jeStartedAt' = jeStartedAt
                 /\ lockHolder' = NoWorker
                 /\ txWrites'[w] = {}
                 /\ \A e \in JobExecutionIds :
                       e = je[w] => (jeStatus'[e] = "created" /\ Schedulable(e)')]_vars

\* A worker's tick failed on starting the execution it had selected, with
\* nothing started before: every execution is still created, the lock is
\* free and the next tick selects an execution.
C9_Witness ==
    \E w \in Workers :
        /\ pc[w] = "idle"
        /\ ret[w] = RetStartError
        /\ lockHolder = NoWorker
        /\ \A e \in JobExecutionIds : jeStatus[e] = "created" /\ startCount[e] = 0
        /\ NextJobExecution # NoJobExecution

\* C10: the scheduler only moves an execution from created to started, and
\* an execution in a terminal status never changes status again.
C10_SchedulerTransitions ==
    [][\A e \in JobExecutionIds :
          /\ jeStatus[e] \in TerminalStatuses => jeStatus'[e] = jeStatus[e]
          /\ (jeStatus'[e] # jeStatus[e] /\ pc' # pc)
                => (jeStatus[e] = "created" /\ jeStatus'[e] = "started")]_vars

\* An execution is finished, and a later tick started another one.
C10_Witness ==
    \E e1, e2 \in JobExecutionIds :
        /\ jeStatus[e1] \in TerminalStatuses
        /\ jeStatus[e2] = "started"
        /\ jeStartedAt[e2] > jeStartedAt[e1]

(***************************************************************************)
(* Properties of the webhook ingestion.                                    *)
(***************************************************************************)
\* The rows the current request created, by kind.
RequestEvents == {ev \in events : ev.delivery = deliveries}

RawRequestEvents == {ev \in RequestEvents : ev.name = "raw"}

TypedRequestEvents == {ev \in RequestEvents : ev.name # "raw"}

\* The subscriptions that have a row among `rows`.
BoundTo(rows) == {ev.subscription_id : ev \in rows}

\* The typed event a payload stands for, if any.
TypedEventName(payload) ==
    IF payload.type = "repository" /\ payload.action = "created"
         /\ RepositoryEventError(payload) = "none" THEN "repository_creation"
    ELSE IF payload.type = "repository" /\ payload.action = "deleted"
         /\ RepositoryEventError(payload) = "none" THEN "repository_deletion"
    ELSE Absent

\* The subscriptions the matcher returns for the raw and for the typed event
\* of the current request.
RawSubscriptionIds ==
    {sub.id : sub \in LoadSubscriptionsByParams("raw", hookReq.params)}

TypedSubscriptionIds ==
    {sub.id : sub \in LoadSubscriptionsByParams(TypedEventName(hookReq.payload),
                                                hookReq.params)}

\* The request passed the signature check of its hook; written with the
\* primitives, not with the connector's own check.
WellSigned(req) ==
    req.signature =
        Hmac(KeyBytes(HexEncode(Hmac(WebhookKey, Target(req.params)))),
             Body(req.payload))

\* The number of rows of the current request named `name` and bound to `sub`.
RowCount(name, sub) ==
    Cardinality({ev \in RequestEvents :
                    ev.name = name /\ ev.subscription_id = sub.id})

\* A subscription registered on the organization and repository of a hook,
\* or on the whole organization of a hook on a whole organization.
OnHook(sub, params) ==
    /\ sub.organization = params.organization
    /\ (params.repository = AnyRepository \/ sub.repository = params.repository)

C5_BadSignatureRejected ==
    (hookPc # "idle" /\ ~WellSigned(hookReq))
        => /\ hookPc \in {"validate", "done"}
           /\ hookPc = "done" => hookRet = "invalid signature"
           /\ ename = Absent
           /\ txEvents = {}
           /\ events = eventsBefore

\* A request signed with the secret of another hook was rejected, on a hook
\* that has subscriptions to the raw event.
C5_Witness ==
    /\ hookPc = "done"
    /\ hookRet = "invalid signature"
    /\ hookReq.signature # UnsignedSignature
    /\ hookReq.payload.decodes
    /\ \E sub \in LoadSubscriptionsByParams("raw", hookReq.params) :
          sub.status = "active"

\* C6 as stated: no event is bound to a subscription that is not active.
C6_OnlyActiveSubscriptions ==
    \A ev \in events : \A sub \in Subscriptions :
        sub.id = ev.subscription_id => sub.status = "active"

\* C7 as stated: a valid repository webhook with action created for (O, R)
\* creates exactly one repository_creation event for each active subscription
\* on (O, R) or (O, any), and none for a subscription on another
\* organization or on another repository of O.  Taken on the hook of the
\* organization O, where github delivers the repository events of O.
C7_CreationFanOut ==
    (/\ hookPc = "done"
     /\ hookRet = "ok"
     /\ hookReq.params = [organization |-> hookReq.payload.org,
                          repository |-> AnyRepository]
     /\ TypedEventName(hookReq.payload) = "repository_creation")
        => \A sub \in Subscriptions :
              sub.event = "repository_creation" =>
                 LET registered ==
                         /\ sub.organization = hookReq.payload.org
                         /\ sub.repository \in {hookReq.payload.repo, AnyRepository}
                 IN /\ (registered /\ sub.status = "active")
                          => RowCount("repository_creation", sub) = 1
                    /\ ~registered => RowCount("repository_creation", sub) = 0

Terminated(x) == rPc[x] = "terminated"

\* The sftp client of x was established by Init.
SftpEstablished(x) == sftpClient[x] # "nil"

C12_TerminateAfterPartialInit ==
    \A x \in RunnerExecutions :
        /\ rPc[x] # "panic"
        /\ Terminated(x) => (sshClient[x] # "open" /\ sftpClient[x] # "open")

\* Init failed on the creation of the sftp client and Terminate closed the
\* ssh client, the only one there was.
C12_Witness ==
    \E x \in RunnerExecutions :
        /\ Terminated(x)
        /\ initRet[x] = TransportError("cannot create sftp client")
        /\ sftpClient[x] = "nil"
        /\ sshClient[x] = "closed"

\* The last ExecuteStep of x has returned.
StepReturned(x) == stepRet[x] # NoReturn

\* C13: when the context is cancelled while the command of a step runs and
\* its exit was not reported, ExecuteStep leaves its select by the branch of
\* the context: it sends the kill signal through the session; and a call
\* that observed the cancellation closes the session and returns
\* context.Canceled, never nil and never a StepFailure.
C13_CancelledStep ==
    [][\A x \in RunnerExecutions :
          /\ (/\ rPc[x] = "es_select"
              /\ cancelled[x]
              /\ goPc[x] = "wait"
              /\ rPc'[x] # rPc[x])
                => (signal'[x] \in {"sent", "failed"}
                      /\ stepErr'[x] = ContextCanceled)
          /\ (signal[x] # "none" /\ ~StepReturned(x) /\ StepReturned(x)')
                => (stepRet'[x] = ContextCanceled /\ session'[x] = "closed")]_vars

\* A step was cancelled while its command was running: the signal was sent,
\* the session is closed and the call returned context.Canceled without an
\* exit report.
C13_Witness ==
    \E x \in RunnerExecutions :
        /\ StepReturned(x)
        /\ cancelled[x]
        /\ signal[x] = "sent"
        /\ session[x] = "closed"
        /\ stepRet[x] = ContextCanceled
        /\ goPc[x] = "wait"

\* C14: ExecuteStep returns nil when the command exited with status 0, a
\* StepFailure when it exited with a status n other than 0 (with the reason
\* "program exited with status n") or died of a signal, and an error that is
\* not a StepFailure when the session cannot be opened, a variable cannot be
\* set, the command cannot be started or Wait fails without an exit report.
C14_StepClassification ==
    \A x \in RunnerExecutions :
        StepReturned(x) =>
            /\ goPc[x] = "none" => stepRet[x].kind = "error"
            /\ (goPc[x] = "exited" /\ waitErr[x].type = "nil")
                  => stepRet[x] = NilError
            /\ (goPc[x] = "exited" /\ waitErr[x].type = "ExitError")
                  => /\ stepRet[x].kind = "StepFailure"
                     /\ waitErr[x].status # 0
                           => stepRet[x].msg = "program exited with status "
                                                  \o ToString(waitErr[x].status)
            /\ (goPc[x] = "exited" /\ waitErr[x].type = "ExitMissingError")
                  => stepRet[x].kind = "error"
            /\ stepRet[x] = NilError
                  => (goPc[x] = "exited" /\ waitErr[x].type = "nil")
            /\ stepRet[x].kind = "StepFailure"
                  => (goPc[x] = "exited" /\ waitErr[x].type = "ExitError")

\* A step whose command exited with status 2 returned the step failure
\* "program exited with status 2".
C14_Witness ==
    \E x \in RunnerExecutions :
        /\ StepReturned(x)
        /\ waitErr[x] = ExitError(2, "")
        /\ stepRet[x] = StepFailureError("program exited with status 2")

(***************************************************************************)
(* More properties of the job scheduler and of CreateEvents.               *)
(***************************************************************************)
\* The workers between the taking of the advisory lock and the end of their
\* transaction.
InTransaction == {w \in Workers : pc[w] # "idle"}

\* C15: at any time at most one worker is between taking the advisory lock
\* and the end of its transaction, and it is the holder of the lock; the lock
\* is free whenever no worker is in its transaction, whatever the way the
\* last one ended, and a worker that waits for it can then take it.
C15_LockSerialises ==
    /\ Cardinality(InTransaction) <= 1
    /\ \A w \in Workers : (lockHolder = w) <=> (w \in InTransaction)
    /\ InTransaction = {} =>
          /\ lockHolder = NoWorker
          /\ \A w \in Workers : ENABLED TakeAdvisoryLock(w)

\* A worker holds the lock and has selected an execution while the other
\* worker, whose tick failed, is out of its transaction.
C15_Witness ==
    \E w1, w2 \in Workers :
        /\ pc[w1] = "start"
        /\ lockHolder = w1
        /\ pc[w2] = "idle"
        /\ ret[w2] \in RetErrors

\* The executions a step starts.
StartedByStep ==
    {e \in JobExecutionIds : jeStatus[e] # "started" /\ jeStatus'[e] = "started"}

\* C16: ProcessJob returns (true, nil) exactly when its transaction
\* committed the start of one execution; with no schedulable execution it
\* selects none and returns (false, nil) with every execution unchanged; a
\* call never starts more than one execution.
C16_ProcessJobResult ==
    [][\A w \in Workers :
          /\ (pc[w] = "load" /\ pc'[w] # "load" /\ SchedulableSet = {}
                /\ ret'[w] \notin RetErrors)
                => (je'[w] = NoJobExecution /\ pc'[w] = "commit")
          /\ (pc[w] # "idle" /\ pc'[w] = "idle")
                => /\ Cardinality(StartedByStep) <= 1
                   /\ (ret'[w] = RetProcessed) <=> (Cardinality(StartedByStep) = 1)
                   /\ (ret'[w] = RetProcessed) => StartedByStep = {je[w]}
                   /\ (je[w] = NoJobExecution /\ ret'[w] \notin RetErrors)
                         => ret'[w] = RetNothing
                   /\ ret'[w] = RetNothing
                         => /\ je[w] = NoJobExecution
                            /\ jeStatus' = jeStatus
                            /\ jeStartedAt' = jeStartedAt]_vars

\* A tick returned (true, nil) and a tick of the other worker, with nothing
\* left to schedule, returned (false, nil).
C16_Witness ==
    \E w1, w2 \in Workers :
        /\ pc[w1] = "idle" /\ ret[w1] = RetProcessed
        /\ pc[w2] = "idle" /\ ret[w2] = RetNothing
        /\ SchedulableSet = {}

\* The rows a step of the webhook handler adds to the events table.
AddedEvents == events' \ events

\* C17: a call of CreateEvents is one transaction that inserts one event
\* for each subscription the matcher returned, bound to it: nothing is
\* persisted before the commit, nothing at all when the loading of the
\* subscriptions or an insert fails, and the commit adds exactly one row per
\* subscription returned.
C17_CreateEventsAtomic ==
    [][/\ (hookPc \in {"create", "insert"} /\ hookPc' = "insert")
             => events' = events
       /\ (hookPc \in {"create", "insert"} /\ hookRet' = "cannot create event")
             => events' = events
       /\ (hookPc = "insert" /\ hookPc' \in {"parse", "done"}
             /\ hookRet' # "cannot create event")
             => /\ events \subseteq events'
                /\ \A sub \in LoadSubscriptionsByParams(ename, hookReq.params) :
                      Cardinality({ev \in AddedEvents :
                                      ev.subscription_id = sub.id}) = 1
                /\ \A ev \in AddedEvents :
                      /\ ev.name = ename
                      /\ ev.delivery = deliveries
                      /\ \E sub \in LoadSubscriptionsByParams(ename,
                                                             hookReq.params) :
                            ev.subscription_id = sub.id]_vars

\* A call of CreateEvents for a typed event committed a row for each of
\* several subscriptions.
C17_Witness ==
    /\ hookPc = "done"
    /\ hookRet = "ok"
    /\ Cardinality(TypedRequestEvents) >= 2
    /\ BoundTo(TypedRequestEvents) = TypedSubscriptionIds

(***************************************************************************)
(* More properties of the ssh runner.                                      *)
(***************************************************************************)
\* Init returned nil for the runner of y and Terminate was not called.
Initialised(y) ==
    rPc[y] \in {"ready", "es_setenv", "es_start", "es_select", "es_close",
                "step_failed"}

\* C18 as stated: Terminate on the runner of an execution x leaves the
\* directory {root}/{y} of another execution y, initialised and not
\* terminated, as it is.
C18_NoInterference ==
    [][\A x, y \in RunnerExecutions :
          (x # y /\ ~Terminated(x) /\ Terminated(x)' /\ Initialised(y))
              => workDir'[y] = workDir[y]]_vars

\* C19 as stated: no goroutine of ExecuteStep is left blocked on its send
\* once ExecuteStep has returned.
C19_GoroutineEnds ==
    \A x \in RunnerExecutions : StepReturned(x) => goPc[x] # "send"

\* C20 as stated: the session ExecuteStep opened is closed when ExecuteStep
\* returns, on every return path.
C20_SessionClosed ==
    \A x \in RunnerExecutions : StepReturned(x) => session[x] # "open"

=============================================================================
